---- MODULE Spec2Model ----
(***************************************************************************)
(* A model of virtual_webcam.py: the configuration store (load_config),    *)
(* the image/animation cache (load_images), the filter chain resolver      *)
(* (get_imagefilters) and the per-frame pipeline (mainloop).               *)
(*                                                                         *)
(* Python values are modelled as follows.                                  *)
(*   dict           a function whose DOMAIN is the set of keys present     *)
(*   list           a sequence                                             *)
(*   None / list    a record [isNone, frames] for the two frame sets       *)
(*   st_mtime       a positive integer                                     *)
(*   time.time()    an integer number of ticks, TicksPerSecond per second  *)
(*   an image       a record naming where its pixels come from and the     *)
(*                  operations applied to it, in order                     *)
(***************************************************************************)
EXTENDS Integers, Sequences, FiniteSets, TLC

----------------------------------------------------------------------------
\* Bounds of the model.

\* config.yaml and image sources take mtimes 1..MaxMtime.
MaxMtime == 2
\* the clock runs from StartTime to MaxTime ticks.
MaxTime == 6
\* an animation directory holds at most MaxFrames files.
MaxFrames == 3
\* a filter list has at most MaxFilters entries.
MaxFilters == 2
\* a mask has Pixels pixels.
Pixels == 1

\* Clock resolution: ticks per second; 1.0 / fps seconds is TicksPerSecond / fps ticks.
TicksPerSecond == 2
\* time.time() is seconds since the epoch: far above any 1/fps at start.
StartTime == 3

----------------------------------------------------------------------------
\* Python dict operations.

EmptyDict == [k \in {} |-> 0]

\* key in d
Has(d, k) == k \in DOMAIN d

\* d.get(k, default)
Get(d, k, default) == IF k \in DOMAIN d THEN d[k] ELSE default

\* d[k] = v
Put(d, k, v) == [x \in DOMAIN d \cup {k} |-> IF x = k THEN v ELSE d[x]]

\* for key in y: d[key] = y[key]
Update(d, y) == [x \in DOMAIN d \cup DOMAIN y |-> IF x \in DOMAIN y THEN y[x] ELSE d[x]]

\* key.endswith("_mtime"), over the keys the program ever stores
endswith_mtime(key) == key \in {"replacement_bgs_mtime", "overlays_mtime"}

\* d.get(k) != v, where a missing key gives None, which differs from every mtime
DiffersFrom(d, k, v) == ~Has(d, k) \/ d[k] # v

----------------------------------------------------------------------------
\* Default config values (the module-level dict).

DefaultConfig ==
    [k \in {"width", "height", "erode", "blur", "segmentation_threshold",
            "blur_background", "background_image", "virtual_video_device",
            "real_video_device", "average_masks"} |->
        CASE k = "width" -> "None"
          [] k = "height" -> "None"
          [] k = "erode" -> 0
          [] k = "blur" -> 0
          [] k = "segmentation_threshold" -> 75      \* 0.75, in hundredths
          [] k = "blur_background" -> 0
          [] k = "background_image" -> "background.jpg"
          [] k = "virtual_video_device" -> "/dev/video2"
          [] k = "real_video_device" -> "/dev/video0"
          [] k = "average_masks" -> 3]

----------------------------------------------------------------------------
\* load_config(oldconfig), given the state `file` of config.yaml:
\*   file.exists    os.stat succeeds
\*   file.mtime     st_mtime
\*   file.readable  open(..., "r") succeeds
\*   file.kind      "mapping": yaml.load gives the dict file.doc
\*                  "malformed": yaml.load raises yaml.YAMLError
\*                  "empty": yaml.load gives None
\* The result is the dict as the call leaves it (oldconfig is mutated in
\* place), the exception that leaves the function ("none": it returns), and
\* whether open() was called.

load_config_reset(c) == [k \in DOMAIN c |-> IF endswith_mtime(k) THEN 0 ELSE c[k]]

\* load_config with the file's mapping taking the place of the previous
\* configuration instead of overlaying it
load_config_replacing(oldconfig, file) ==
    IF ~file.exists \/ ~DiffersFrom(oldconfig, "mtime", file.mtime)
    THEN [config |-> oldconfig, raised |-> "none", opened |-> FALSE, path |-> "unchanged"]
    ELSE IF ~file.readable \/ file.kind # "mapping"
    THEN [config |-> Put(oldconfig, "mtime", file.mtime), raised |-> "none",
          opened |-> TRUE, path |-> "open_failed"]
    ELSE [config |-> load_config_reset(Put(file.doc, "mtime", file.mtime)),
          raised |-> "none", opened |-> TRUE, path |-> "reloaded"]

load_config(oldconfig, file) ==
    IF ~file.exists
    THEN \* os.stat raises FileNotFoundError: except OSError: pass
         [config |-> oldconfig, raised |-> "none", opened |-> FALSE, path |-> "stat_failed"]
    ELSE IF ~DiffersFrom(oldconfig, "mtime", file.mtime)
    THEN [config |-> oldconfig, raised |-> "none", opened |-> FALSE, path |-> "unchanged"]
    ELSE LET c1 == Put(oldconfig, "mtime", file.mtime) IN
         IF ~file.readable
         THEN \* open raises PermissionError: except OSError: pass
              [config |-> c1, raised |-> "none", opened |-> TRUE, path |-> "open_failed"]
         ELSE IF file.kind = "malformed"
         THEN [config |-> c1, raised |-> "YAMLError", opened |-> TRUE, path |-> "parse_failed"]
         ELSE IF file.kind = "empty"
         THEN \* for key in None
              [config |-> c1, raised |-> "TypeError", opened |-> TRUE, path |-> "parse_failed"]
         ELSE [config |-> load_config_reset(Update(c1, file.doc)),
               raised |-> "none", opened |-> TRUE, path |-> "reloaded"]

----------------------------------------------------------------------------
\* The filter registry (module filters, imported by virtual_webcam.py):
\* the names it knows, each with the parameters its function takes after
\* the frame.

FilterParams(name) ==
    CASE name = "grayscale" -> <<>>
      [] name = "blur" -> <<"radius">>
      [] OTHER -> <<>>

KnownFilters == {"grayscale", "blur"}

\* filters.get_filter(name): the function registered under name, or an error
filters_get_filter(name) ==
    IF name \in KnownFilters THEN [raised |-> "none", func |-> name]
    ELSE [raised |-> "UnknownFilter", func |-> ""]

\* func(frame, *args, **kwargs): Python binds positional arguments to the
\* leading parameters and keyword arguments by name; a parameter bound twice,
\* an unknown keyword, too many or too few arguments raise TypeError.
\* Otherwise the result is the frame with the operation applied.
IndexOf(seq, x) == CHOOSE i \in 1..Len(seq) : seq[i] = x

call_binds(func, args, kwargs) ==
    LET params == FilterParams(func)
        names == {params[i] : i \in 1..Len(params)}
        positional == {params[i] : i \in 1..(IF Len(args) < Len(params) THEN Len(args) ELSE Len(params))}
    IN /\ Len(args) <= Len(params)
       /\ DOMAIN kwargs \subseteq names
       /\ DOMAIN kwargs \cap positional = {}
       /\ DOMAIN kwargs \cup positional = names

call_filter(func, args, kwargs, frame) ==
    IF ~call_binds(func, args, kwargs)
    THEN [raised |-> "TypeError", frame |-> frame]
    ELSE LET params == FilterParams(func)
             bound == [p \in {params[i] : i \in 1..Len(params)} |->
                          IF IndexOf(params, p) <= Len(args)
                          THEN args[IndexOf(params, p)] ELSE kwargs[p]]
         IN [raised |-> "none",
             frame |-> [frame EXCEPT !.ops = Append(@, [name |-> func, bound |-> bound])]]

----------------------------------------------------------------------------
\* get_imagefilters(filter_list).
\* An entry of filter_list is a record
\*   type    "str": a filter name; "list": [name, params...]; "other"
\*   name    the name (filters_item, or filters_item[0])
\*   form    of params = filters_item[1:]
\*             "list1": one element, a list (vals)
\*             "dict1": one element, a dict (kw)
\*             "flat":  anything else (vals)
\* The result holds image_filters, whose elements are either the registered
\* function itself (kind "func") or the lambda (kind "lambda"), and the
\* variables _image_filter, args and kwargs of the call's scope as the loop
\* leaves them: the lambda reads them when it is called.

NoCell == [_image_filter |-> "", args |-> <<>>, kwargs |-> EmptyDict]

RECURSIVE get_imagefilters_loop(_, _, _, _)
get_imagefilters_loop(filter_list, i, image_filters, cell) ==
    IF i > Len(filter_list)
    THEN [raised |-> "none", image_filters |-> image_filters, cell |-> cell]
    ELSE LET filters_item == filter_list[i] IN
         IF filters_item.type = "str"
         THEN LET f == filters_get_filter(filters_item.name) IN
              IF f.raised # "none"
              THEN [raised |-> f.raised, image_filters |-> image_filters, cell |-> cell]
              ELSE get_imagefilters_loop(filter_list, i + 1,
                       Append(image_filters, [kind |-> "func", func |-> f.func]), cell)
         ELSE IF filters_item.type = "list"
         THEN LET args == IF filters_item.form = "list1" THEN filters_item.vals
                          ELSE IF filters_item.form = "dict1" THEN <<>>
                          ELSE filters_item.vals
                  kwargs == IF filters_item.form = "dict1" THEN filters_item.kw
                            ELSE EmptyDict
                  f == filters_get_filter(filters_item.name)
              IN IF f.raised # "none"
                 THEN [raised |-> f.raised, image_filters |-> image_filters,
                       cell |-> [cell EXCEPT !.args = args, !.kwargs = kwargs]]
                 ELSE get_imagefilters_loop(filter_list, i + 1,
                          Append(image_filters, [kind |-> "lambda", func |-> ""]),
                          [_image_filter |-> f.func, args |-> args, kwargs |-> kwargs])
         ELSE get_imagefilters_loop(filter_list, i + 1, image_filters, cell)

get_imagefilters(filter_list) == get_imagefilters_loop(filter_list, 1, <<>>, NoCell)

\* image_filter(frame) for one element of image_filters
call_image_filter(image_filter, cell, frame) ==
    IF image_filter.kind = "func"
    THEN call_filter(image_filter.func, <<>>, EmptyDict, frame)
    ELSE call_filter(cell._image_filter, cell.args, cell.kwargs, frame)

\* for image_filter in image_filters:
\*     try: frame = image_filter(frame)
\*     except TypeError: pass
RECURSIVE apply_filters_until_error(_, _, _)
apply_filters_until_error(chain, i, frame) ==
    IF i > Len(chain.image_filters) THEN frame
    ELSE LET r == call_image_filter(chain.image_filters[i], chain.cell, frame) IN
         IF r.raised = "TypeError" THEN frame
         ELSE apply_filters_until_error(chain, i + 1, r.frame)

RECURSIVE apply_filters_loop(_, _, _)
apply_filters_loop(chain, i, frame) ==
    IF i > Len(chain.image_filters) THEN frame
    ELSE LET r == call_image_filter(chain.image_filters[i], chain.cell, frame) IN
         apply_filters_loop(chain, i + 1, IF r.raised = "TypeError" THEN frame ELSE r.frame)

apply_filters(chain, frame) == apply_filters_loop(chain, 1, frame)

----------------------------------------------------------------------------
\* Images and frame sets.

\* No image: the value of a local before it is assigned.
NoFrame == [src |-> "", ver |-> 0, i |-> 0, interp |-> "", alpha |-> FALSE, ops |-> <<>>]

\* The frame cap.read() delivers.
CameraFrame == [src |-> "cam", ver |-> 0, i |-> 0, interp |-> "", alpha |-> FALSE, ops |-> <<>>]

\* An operation without parameters applied to a frame (cv2.flip, the
\* channel reversal, the halo).
WithOp(frame, name) == [frame EXCEPT !.ops = Append(@, [name |-> name, bound |-> EmptyDict])]

\* A frame set variable holds None or a list of images.
None == [isNone |-> TRUE, frames |-> <<>>]
Some(frames) == [isNone |-> FALSE, frames |-> frames]

\* The state of a path of the file system: os.stat succeeds (exists) with
\* st_mtime mtime; a directory (isdir) holds nfiles files matching "*.*", a
\* plain file counts as one; cv2.imread decodes the files (decodable) to
\* images with or without an alpha channel.
NoFile == [exists |-> FALSE, mtime |-> 0, isdir |-> FALSE, nfiles |-> 0,
           decodable |-> FALSE, alpha |-> FALSE]

StatOf(files, path) == IF path \in DOMAIN files THEN files[path] ELSE NoFile

\* imageset_name + "_mtime", imageset_name + "_idx"
MtimeKey(imageset_name) ==
    IF imageset_name = "replacement_bgs" THEN "replacement_bgs_mtime" ELSE "overlays_mtime"
IdxKey(imageset_name) ==
    IF imageset_name = "replacement_bgs" THEN "replacement_bgs_idx" ELSE "overlays_idx"

\* The interpolation cv2.resize is given: the parameter is overwritten with
\* cv2.INTER_LINEAR before it is compared with "NEAREST".
resize_interpolation(interpolation_method) ==
    LET overwritten == "INTER_LINEAR" IN
    IF overwritten = "NEAREST" THEN "INTER_NEAREST" ELSE overwritten

\* cv2.imread + cv2.resize + BGR to RGB of file number i of the source
decode_image(image_name, f, i, interpolation_method) ==
    [src |-> image_name, ver |-> f.mtime, i |-> i,
     interp |-> resize_interpolation(interpolation_method),
     alpha |-> f.alpha, ops |-> <<>>]

\* config[imageset_name + "_mtime"] = os.stat(image_name).st_mtime,
\* and the same with the marker left at the value that forces a reload
record_mtime_zero(cfg, imageset_name, mtime) == Put(cfg, MtimeKey(imageset_name), 0)
record_mtime(cfg, imageset_name, mtime) == Put(cfg, MtimeKey(imageset_name), mtime)

\* load_images(images, image_name, height, width, imageset_name,
\*             interpolation_method, image_filters), on the global config cfg
\* and the file system files. The result: the global config as the call
\* leaves it, the value returned, the exception that leaves the function,
\* the number of files decoded and the branch taken.
load_images(cfg, images, image_name, imageset_name, interpolation_method, image_filters, files) ==
    LET replacement_stat == StatOf(files, image_name) IN
    IF ~replacement_stat.exists
    THEN \* except OSError: return None
         [config |-> cfg, images |-> None, raised |-> "none", decoded |-> 0,
          path |-> "stat_failed"]
    ELSE IF ~DiffersFrom(cfg, MtimeKey(imageset_name), replacement_stat.mtime)
    THEN [config |-> cfg, images |-> images, raised |-> "none", decoded |-> 0,
          path |-> "hit"]
    ELSE LET c1 == Put(cfg, IdxKey(imageset_name), 0)
             n == IF replacement_stat.isdir THEN replacement_stat.nfiles ELSE 1
         IN IF n = 0
            THEN [config |-> c1, images |-> None, raised |-> "none", decoded |-> 0,
                  path |-> "empty_dir"]
            ELSE IF ~replacement_stat.decodable
            THEN \* cv2.imread gives None and cv2.resize raises cv2.error
                 [config |-> c1, images |-> images, raised |-> "cv2.error", decoded |-> 0,
                  path |-> "decode_failed"]
            ELSE LET c2 == record_mtime(c1, imageset_name, replacement_stat.mtime)
                     loaded == [i \in 1..n |->
                                  apply_filters(image_filters,
                                      decode_image(image_name, replacement_stat, i,
                                                   interpolation_method))]
                 IN [config |-> c2, images |-> Some(loaded), raised |-> "none",
                     decoded |-> n, path |-> "loaded"]

\* The default of the parameter image_filters: []
NoFilters == [image_filters |-> <<>>, cell |-> NoCell]

----------------------------------------------------------------------------
\* The mask history.

Min(a, b) == IF a < b THEN a ELSE b
Max(a, b) == IF a > b THEN a ELSE b

\* The masks the segmentation can deliver: one 0/1 value per pixel.
RawMasks == [1..Pixels -> {0, 1}]

RECURSIVE SumAt(_, _, _)
SumAt(ms, p, j) == IF j = 0 THEN 0 ELSE ms[j][p] + SumAt(ms, p, j - 1)

\* np.mean(masks, axis=0): per pixel, the sum over the masks (num) divided
\* by their number (den)
mean_masks(ms) == [num |-> [p \in 1..Pixels |-> SumAt(ms, p, Len(ms))], den |-> Len(ms)]

\* masks.insert(0, mask); masks = masks[:num_average_masks]
push_mask_back(ms, mask, num_average_masks) ==
    SubSeq(ms \o <<mask>>, 1, Min(num_average_masks, Len(ms) + 1))
push_mask(ms, mask, num_average_masks) ==
    SubSeq(<<mask>> \o ms, 1, Min(num_average_masks, Len(ms) + 1))

\* num_average_masks = max(1, config.get("average_masks", 3))
num_average_masks(cfg) == Max(1, Get(cfg, "average_masks", 3))

\* mask *= 255; dilate, erode, blur where the setting is non-zero; mask /= 255.
\* The refined mask keeps the mean and lists the stages applied.
refine_stage(m, name, k) == IF k # 0 THEN [m EXCEPT !.morph = Append(@, <<name, k>>)] ELSE m

refine_mask(mean, cfg) ==
    refine_stage(refine_stage(refine_stage([num |-> mean.num, den |-> mean.den, morph |-> <<>>],
        "dilate", cfg["dilate"]), "erode", cfg["erode"]), "blur", cfg["blur"])

NoMask == [num |-> <<>>, den |-> 0, morph |-> <<>>]

----------------------------------------------------------------------------
\* Playback.

\* time.time() - config.get(last_key, 0) > 1.0 / config.get(fps_key, 1)
advance_due_inclusive(cfg, last_key, fps_key, t) ==
    (t - Get(cfg, last_key, 0)) * Get(cfg, fps_key, 1) >= TicksPerSecond
advance_due(cfg, last_key, fps_key, t) ==
    (t - Get(cfg, last_key, 0)) * Get(cfg, fps_key, 1) > TicksPerSecond

\* config[idx_key] = (idx + 1) % len(frames); config[last_key] = time.time()
advance(cfg, idx_key, last_key, fps_key, idx, n, t) ==
    IF advance_due(cfg, last_key, fps_key, t)
    THEN Put(Put(cfg, idx_key, (idx + 1) % n), last_key, t)
    ELSE cfg

----------------------------------------------------------------------------
\* The state.

VARIABLES
    pc,                \* where the process is: "startup", a stage of mainloop,
                       \* "exited" (sys.exit) or "crashed" (uncaught exception)
    err,               \* the exception that ended the process, or "none"
    config,            \* the global config
    replacement_bgs,   \* the global background frame set
    overlays,          \* the global overlay frame set
    masks,             \* the global mask history
    loc,               \* the locals of mainloop
    sink,              \* the frame last handed to fakewebcam.schedule_frame
    now,               \* time.time()
    cfgfile,           \* config.yaml
    fs,                \* the image paths of the file system
    trace,             \* what the last step did
    observed,          \* imagesets with no load_images call since load_config
                       \* last saw a changed config.yaml
    lastdec,           \* per imageset, the source and mtime last decoded
    hist               \* the raw masks pushed, newest first

vars == <<pc, err, config, replacement_bgs, overlays, masks, loc, sink, now,
          cfgfile, fs, trace, observed, lastdec, hist>>

ImageSets == {"replacement_bgs", "overlays"}

NoLocals == [frame |-> NoFrame, mask |-> NoMask, image_filters |-> NoFilters,
             replacement_bgs_idx |-> 0, overlays_idx |-> 0]

\* What a step did: the stage, the branch of load_config and load_images it
\* took ("-": not called), whether it called open() on config.yaml, how many
\* image files it decoded, whether it called schedule_frame, and which
\* transform of a chain it called (0: none); read: FALSE when cap.read()
\* reported a failure.
Did(op) == [op |-> op, lc |-> "-", opened |-> FALSE, li |-> "-", set |-> "-",
            decoded |-> 0, emitted |-> FALSE, arg |-> 0, read |-> TRUE]

NoDecode == [path |-> "", mtime |-> 0, fresh |-> FALSE]

\* The log keeps as many raw masks as the largest capacity in use: the
\* default of average_masks.
LogLen == 3
NoHist == [pushed |-> <<>>, cap |-> 0, steady |-> 0]

Chain(r) == [image_filters |-> r.image_filters, cell |-> r.cell]

\* while True: try: mainloop() except KeyboardInterrupt: break
\* Where the process is after an exception has left mainloop: the loop
\* catches KeyboardInterrupt only, so sys.exit ends the process ("exited")
\* and so does every other exception ("crashed"). The second definition is
\* a loop that catches everything and calls mainloop again.
after_exception_swallowed(exception) == "load_config"
after_exception(exception) == IF exception = "SystemExit" THEN "exited" ELSE "crashed"

\* An uncaught exception leaves mainloop and the while loop.
Crash(exception) == pc' = after_exception(exception) /\ err' = exception

----------------------------------------------------------------------------
\* The steps of the program.

\* What a load_config call means for the bookkeeping of the claims.
ObservedAfter(r) ==
    IF r.path \in {"open_failed", "parse_failed", "reloaded"} THEN ImageSets ELSE observed
LastdecAfter(r) ==
    IF r.path = "reloaded" THEN [s \in ImageSets |-> [lastdec[s] EXCEPT !.fresh = FALSE]]
    ELSE lastdec

\* config = load_config(config), at module level
Startup ==
    /\ pc = "startup"
    /\ LET r == load_config(config, cfgfile) IN
       /\ config' = r.config
       /\ IF r.raised # "none" THEN Crash(r.raised)
          ELSE pc' = "load_config" /\ err' = err
       /\ trace' = [Did("startup") EXCEPT !.lc = r.path, !.opened = r.opened]
       /\ observed' = ObservedAfter(r)
       /\ lastdec' = LastdecAfter(r)
    /\ UNCHANGED <<replacement_bgs, overlays, masks, loc, sink, now, cfgfile, fs, hist>>

\* mainloop: config = load_config(config)
LoadConfig ==
    /\ pc = "load_config"
    /\ LET r == load_config(config, cfgfile) IN
       /\ config' = r.config
       /\ IF r.raised # "none" THEN Crash(r.raised)
          ELSE pc' = "capture" /\ err' = err
       /\ trace' = [Did("load_config") EXCEPT !.lc = r.path, !.opened = r.opened]
       /\ observed' = ObservedAfter(r)
       /\ lastdec' = LastdecAfter(r)
    /\ UNCHANGED <<replacement_bgs, overlays, masks, loc, sink, now, cfgfile, fs, hist>>

\* mainloop: cap.read(), sys.exit(1) on failure, the configured flips
Capture ==
    /\ pc = "capture"
    /\ \E success \in BOOLEAN :
          IF ~success
          THEN /\ Crash("SystemExit")
               /\ loc' = loc
               /\ trace' = [Did("capture") EXCEPT !.read = FALSE]
          ELSE LET f0 == CameraFrame
                   f1 == IF Get(config, "flip_horizontal", FALSE) THEN WithOp(f0, "flip1") ELSE f0
                   f2 == IF Get(config, "flip_vertical", FALSE) THEN WithOp(f1, "flip0") ELSE f1
               IN /\ pc' = "load_bg" /\ err' = err
                  /\ loc' = [NoLocals EXCEPT !.frame = f2]
                  /\ trace' = Did("capture")
    /\ UNCHANGED <<config, replacement_bgs, overlays, masks, sink, now, cfgfile, fs,
                   observed, lastdec, hist>>

\* The bookkeeping of a load_images call for imageset s that returned r.
LastdecLoaded(s, image_name, r) ==
    IF r.path = "loaded"
    THEN [lastdec EXCEPT ![s] = [path |-> image_name, mtime |-> r.config[MtimeKey(s)],
                                 fresh |-> TRUE]]
    ELSE lastdec

\* mainloop: the background filters are resolved and the background loaded
LoadBackground ==
    /\ pc = "load_bg"
    /\ LET r1 == get_imagefilters(Get(config, "background_filters", <<>>))
           image_name == Get(config, "background_image", "background.jpg")
           r2 == load_images(config, replacement_bgs, image_name, "replacement_bgs",
                             Get(config, "background_interpolation_method", "None"),
                             Chain(r1), fs)
       IN IF r1.raised # "none"
          THEN /\ Crash(r1.raised)
               /\ trace' = Did("load_bg")
               /\ UNCHANGED <<config, replacement_bgs, loc, observed, lastdec>>
          ELSE /\ config' = r2.config
               /\ trace' = [Did("load_bg") EXCEPT !.li = r2.path, !.set = "replacement_bgs",
                                                  !.decoded = r2.decoded]
               /\ observed' = observed \ {"replacement_bgs"}
               /\ lastdec' = LastdecLoaded("replacement_bgs", image_name, r2)
               /\ IF r2.raised # "none"
                  THEN Crash(r2.raised) /\ UNCHANGED <<replacement_bgs, loc>>
                  ELSE /\ pc' = "bg_none" /\ err' = err
                       /\ replacement_bgs' = r2.images
                       /\ loc' = [loc EXCEPT !.image_filters = Chain(r1)]
    /\ UNCHANGED <<overlays, masks, sink, now, cfgfile, fs, hist>>

\* mainloop: the channel reversal, and what happens without a background:
\* the raw frame is emitted, or the filtered camera frame becomes the background
NoBackground ==
    /\ pc = "bg_none"
    /\ LET frame == WithOp(loc.frame, "reverse_channels") IN
       IF replacement_bgs.isNone /\ Len(loc.image_filters.image_filters) = 0
       THEN /\ sink' = frame
            /\ trace' = [Did("bg_none") EXCEPT !.emitted = TRUE]
            /\ pc' = "load_config"
            /\ loc' = NoLocals
            /\ UNCHANGED replacement_bgs
       ELSE /\ replacement_bgs' =
                  IF replacement_bgs.isNone
                  THEN Some(<<apply_filters(loc.image_filters, frame)>>)
                  ELSE replacement_bgs
            /\ trace' = Did("bg_none")
            /\ pc' = "segment"
            /\ loc' = [loc EXCEPT !.frame = frame]
            /\ UNCHANGED sink
    /\ UNCHANGED <<err, config, overlays, masks, now, cfgfile, fs, observed, lastdec, hist>>

\* mainloop: segmentation (raw: the mask it delivers), the mask history and
\* the refinement of the averaged mask; config["dilate"] raises KeyError
\* when no dilate is configured
Segment(M) ==
    /\ pc = "segment"
    /\ \E raw \in M :
          LET K == num_average_masks(config)
              kept == push_mask(masks, raw, K)
          IN /\ masks' = kept
             /\ hist' = [pushed |-> SubSeq(<<raw>> \o hist.pushed, 1,
                                           Min(LogLen, Len(hist.pushed) + 1)),
                         cap |-> K,
                         steady |-> IF hist.cap = K THEN Min(hist.steady + 1, LogLen) ELSE 1]
             /\ IF ~Has(config, "dilate")
                THEN /\ Crash("KeyError")
                     /\ loc' = [loc EXCEPT !.mask = [num |-> mean_masks(kept).num,
                                                     den |-> mean_masks(kept).den,
                                                     morph |-> <<>>]]
                ELSE /\ pc' = "fg_filter" /\ err' = err
                     /\ loc' = [loc EXCEPT !.mask = refine_mask(mean_masks(kept), config)]
    /\ trace' = Did("segment")
    /\ UNCHANGED <<config, replacement_bgs, overlays, sink, now, cfgfile, fs,
                   observed, lastdec>>

\* mainloop: "Filter the foreground"
FilterForeground ==
    /\ pc = "fg_filter"
    /\ LET r == get_imagefilters(Get(config, "foreground_filters", <<>>)) IN
       IF r.raised # "none"
       THEN Crash(r.raised) /\ loc' = loc
       ELSE /\ pc' = "blend" /\ err' = err
            /\ loc' = [loc EXCEPT !.frame = apply_filters(Chain(r), loc.frame)]
    /\ trace' = Did("fg_filter")
    /\ UNCHANGED <<config, replacement_bgs, overlays, masks, sink, now, cfgfile, fs,
                   observed, lastdec, hist>>

\* frame[:,:,c] = frame[:,:,c] * mask + replacement_bg[:,:,c] * mask_inv for
\* c in range(3), on pixel values: an image is a value per pixel and
\* channel, the mask a fraction num/den per pixel, mask_inv = 1.0 - mask;
\* the assignment to the uint8 frame truncates. The first definition has
\* mask and mask_inv exchanged.
blend_pixels_inverted(frame, background, mask) ==
    [p \in 1..Pixels |-> [c \in 1..3 |->
        (frame[p][c] * (mask.den - mask.num[p]) + background[p][c] * mask.num[p])
            \div mask.den]]
blend_pixels(frame, background, mask) ==
    [p \in 1..Pixels |-> [c \in 1..3 |->
        (frame[p][c] * mask.num[p] + background[p][c] * (mask.den - mask.num[p]))
            \div mask.den]]

\* frame * mask + background * mask_inv, per channel
blend_background(frame, background, mask) ==
    [frame EXCEPT !.ops = Append(@, [name |-> "blend_background",
                                     bound |-> [background |-> background, mask |-> mask]])]

\* assert(overlay.shape[2] == 4), and the same with the assertion taken
\* to hold for every image
has_alpha_assumed(overlay) == TRUE
has_alpha(overlay) == overlay.alpha

\* frame * (1 - alpha) + overlay * alpha, per channel
blend_overlay(frame, overlay) ==
    [frame EXCEPT !.ops = Append(@, [name |-> "blend_overlay",
                                     bound |-> [overlay |-> overlay]])]

\* mainloop: the background frame is selected and blended, and the
\* background index advanced when due
Blend ==
    /\ pc = "blend"
    /\ LET replacement_bgs_idx == Get(config, "replacement_bgs_idx", 0) IN
       /\ loc' = [loc EXCEPT
                    !.replacement_bgs_idx = replacement_bgs_idx,
                    !.frame = IF replacement_bgs_idx < Len(replacement_bgs.frames)
                              THEN blend_background(@,
                                       replacement_bgs.frames[replacement_bgs_idx + 1],
                                       loc.mask)
                              ELSE @]
       /\ IF replacement_bgs_idx >= Len(replacement_bgs.frames)
          THEN Crash("IndexError") /\ config' = config
          ELSE /\ pc' = "result" /\ err' = err
               /\ config' = advance(config, "replacement_bgs_idx", "last_frame_bg",
                                    "background_fps", replacement_bgs_idx,
                                    Len(replacement_bgs.frames), now)
    /\ trace' = Did("blend")
    /\ UNCHANGED <<replacement_bgs, overlays, masks, sink, now, cfgfile, fs,
                   observed, lastdec, hist>>

\* mainloop: "Filter the result"
FilterResult ==
    /\ pc = "result"
    /\ LET r == get_imagefilters(Get(config, "result_filters", <<>>)) IN
       IF r.raised # "none"
       THEN Crash(r.raised) /\ loc' = loc
       ELSE /\ pc' = "load_overlay" /\ err' = err
            /\ loc' = [loc EXCEPT !.frame = apply_filters(Chain(r), loc.frame)]
    /\ trace' = Did("result")
    /\ UNCHANGED <<config, replacement_bgs, overlays, masks, sink, now, cfgfile, fs,
                   observed, lastdec, hist>>

\* mainloop: overlays_idx is read, then the overlay is loaded; the resolved
\* overlay filters are passed in the place of interpolation_method
LoadOverlay ==
    /\ pc = "load_overlay"
    /\ LET overlays_idx == Get(config, "overlays_idx", 0)
           r1 == get_imagefilters(Get(config, "overlay_filters", <<>>))
           image_name == Get(config, "overlay_image", "")
           r2 == load_images(config, overlays, image_name, "overlays",
                             Chain(r1), NoFilters, fs)
       IN /\ loc' = [loc EXCEPT !.overlays_idx = overlays_idx]
          /\ IF r1.raised # "none"
             THEN /\ Crash(r1.raised)
                  /\ trace' = Did("load_overlay")
                  /\ UNCHANGED <<config, overlays, observed, lastdec>>
             ELSE /\ config' = r2.config
                  /\ trace' = [Did("load_overlay") EXCEPT !.li = r2.path, !.set = "overlays",
                                                          !.decoded = r2.decoded]
                  /\ observed' = observed \ {"overlays"}
                  /\ lastdec' = LastdecLoaded("overlays", image_name, r2)
                  /\ IF r2.raised # "none"
                     THEN Crash(r2.raised) /\ overlays' = overlays
                     ELSE pc' = "halo" /\ err' = err /\ overlays' = r2.images
    /\ UNCHANGED <<replacement_bgs, masks, sink, now, cfgfile, fs, hist>>

\* mainloop: halo.png is read, resized and blended around the mask's centre
\* of mass. fits: whether the clipped region of the frame has the halo's
\* shape, which depends on where the centre of mass lies.
Halo ==
    /\ pc = "halo"
    /\ LET halo == StatOf(fs, "halo.png") IN
       \E fits \in BOOLEAN :
          IF ~halo.exists \/ ~halo.decodable
          THEN Crash("cv2.error") /\ loc' = loc
          ELSE IF ~halo.alpha
          THEN Crash("IndexError") /\ loc' = loc
          ELSE IF ~fits
          THEN Crash("ValueError") /\ loc' = loc
          ELSE /\ pc' = "overlay" /\ err' = err
               /\ loc' = [loc EXCEPT !.frame = WithOp(@, "halo")]
    /\ trace' = Did("halo")
    /\ UNCHANGED <<config, replacement_bgs, overlays, masks, sink, now, cfgfile, fs,
                   observed, lastdec, hist>>

\* mainloop: the overlay frame is selected and blended, and the overlay
\* index advanced when due
OverlayBlend ==
    /\ pc = "overlay"
    /\ IF overlays.isNone \/ Len(overlays.frames) = 0
       THEN pc' = "emit" /\ UNCHANGED <<err, config, loc>>
       ELSE IF loc.overlays_idx >= Len(overlays.frames)
       THEN Crash("IndexError") /\ UNCHANGED <<config, loc>>
       ELSE LET overlay == overlays.frames[loc.overlays_idx + 1] IN
            IF ~has_alpha(overlay)
            THEN Crash("AssertionError") /\ UNCHANGED <<config, loc>>
            ELSE /\ pc' = "emit" /\ err' = err
                 /\ loc' = [loc EXCEPT !.frame = blend_overlay(@, overlay)]
                 /\ config' = advance(config, "overlays_idx", "last_frame_overlay",
                                      "overlay_fps", loc.overlays_idx,
                                      Len(overlays.frames), now)
    /\ trace' = Did("overlay")
    /\ UNCHANGED <<replacement_bgs, overlays, masks, sink, now, cfgfile, fs,
                   observed, lastdec, hist>>

\* mainloop: the debug rendering of the mask, and the frame is handed to the sink
Emit ==
    /\ pc = "emit"
    /\ sink' = IF Get(config, "debug_show_mask", FALSE)
               THEN [loc.frame EXCEPT !.ops = Append(@, [name |-> "show_mask",
                                                         bound |-> [mask |-> loc.mask]])]
               ELSE loc.frame
    /\ trace' = [Did("emit") EXCEPT !.emitted = TRUE]
    /\ pc' = "load_config"
    /\ loc' = NoLocals
    /\ UNCHANGED <<err, config, replacement_bgs, overlays, masks, now, cfgfile, fs,
                   observed, lastdec, hist>>

\* One step of the program.
Program(M) ==
    \/ Startup
    \/ LoadConfig
    \/ Capture
    \/ LoadBackground
    \/ NoBackground
    \/ Segment(M)
    \/ FilterForeground
    \/ Blend
    \/ FilterResult
    \/ LoadOverlay
    \/ Halo
    \/ OverlayBlend
    \/ Emit

----------------------------------------------------------------------------
\* The environment: config.yaml, the image sources and the clock change
\* between two iterations of the loop.

Quiescent == pc = "load_config"

\* config.yaml is written: a mapping d, with any mtime
WriteConfig(D) ==
    /\ Quiescent
    /\ \E m \in 1..MaxMtime, d \in D :
          /\ cfgfile' = [cfgfile EXCEPT !.exists = TRUE, !.mtime = m,
                                        !.kind = "mapping", !.doc = d]
          /\ cfgfile' # cfgfile
    /\ trace' = Did("env")
    /\ UNCHANGED <<pc, err, config, replacement_bgs, overlays, masks, loc, sink, now,
                   fs, observed, lastdec, hist>>

\* config.yaml is written with text that is no YAML mapping
CorruptConfig ==
    /\ Quiescent
    /\ \E m \in 1..MaxMtime, k \in {"malformed", "empty"} :
          /\ cfgfile' = [cfgfile EXCEPT !.exists = TRUE, !.mtime = m,
                                        !.kind = k, !.doc = EmptyDict]
          /\ cfgfile' # cfgfile
    /\ trace' = Did("env")
    /\ UNCHANGED <<pc, err, config, replacement_bgs, overlays, masks, loc, sink, now,
                   fs, observed, lastdec, hist>>

\* the permissions of config.yaml change: its mtime does not
ChmodConfig ==
    /\ Quiescent
    /\ cfgfile.exists
    /\ cfgfile' = [cfgfile EXCEPT !.readable = ~@]
    /\ trace' = Did("env")
    /\ UNCHANGED <<pc, err, config, replacement_bgs, overlays, masks, loc, sink, now,
                   fs, observed, lastdec, hist>>

\* config.yaml is removed
RemoveConfig ==
    /\ Quiescent
    /\ cfgfile.exists
    /\ cfgfile' = [cfgfile EXCEPT !.exists = FALSE]
    /\ trace' = Did("env")
    /\ UNCHANGED <<pc, err, config, replacement_bgs, overlays, masks, loc, sink, now,
                   fs, observed, lastdec, hist>>

\* an image source changes to one of the states F
SetSource(path, F) ==
    /\ Quiescent
    /\ \E f \in F :
          /\ f # fs[path]
          /\ fs' = [fs EXCEPT ![path] = f]
    /\ trace' = Did("env")
    /\ UNCHANGED <<pc, err, config, replacement_bgs, overlays, masks, loc, sink, now,
                   cfgfile, observed, lastdec, hist>>

\* time passes
Tick ==
    /\ Quiescent
    /\ \E t \in (now + 1)..MaxTime : now' = t
    /\ trace' = Did("env")
    /\ UNCHANGED <<pc, err, config, replacement_bgs, overlays, masks, loc, sink,
                   cfgfile, fs, observed, lastdec, hist>>

\* The states of a source: a plain image file, a directory of n images, gone.
ImageFile(m, alpha) == [exists |-> TRUE, mtime |-> m, isdir |-> FALSE, nfiles |-> 0,
                        decodable |-> TRUE, alpha |-> alpha]
ImageDir(m, n, alpha) == [exists |-> TRUE, mtime |-> m, isdir |-> TRUE, nfiles |-> n,
                          decodable |-> TRUE, alpha |-> alpha]
Undecodable(m) == [exists |-> TRUE, mtime |-> m, isdir |-> FALSE, nfiles |-> 0,
                   decodable |-> FALSE, alpha |-> FALSE]

\* The paths of the model: the default background, an animation directory,
\* an overlay and the halo.
Paths == {"background.jpg", "anim", "overlay", "halo.png"}

\* A config.yaml holding the mapping d.
ConfigFile(m, d) == [exists |-> TRUE, readable |-> TRUE, mtime |-> m,
                     kind |-> "mapping", doc |-> d]
NoConfigFile == [exists |-> FALSE, readable |-> TRUE, mtime |-> 1,
                 kind |-> "mapping", doc |-> EmptyDict]

\* The part of the initial state that is the same in every specification:
\* the module-level globals before load_config is first called.
InitProgram ==
    /\ pc = "startup"
    /\ err = "none"
    /\ config = DefaultConfig
    /\ replacement_bgs = None
    /\ overlays = None
    /\ masks = <<>>
    /\ loc = NoLocals
    /\ sink = NoFrame
    /\ now = StartTime
    /\ trace = Did("init")
    /\ observed = {}
    /\ lastdec = [s \in ImageSets |-> NoDecode]
    /\ hist = NoHist

----------------------------------------------------------------------------
\* SpecConfig: load_config on its own. The dict it is given is the default
\* one or one that has been in use (a recorded mtime, image markers and
\* playback state); config.yaml is written, corrupted, removed and has its
\* permissions changed between the calls.

\* one optional key of a mapping
Opt(key, values) == {EmptyDict} \cup {[k \in {key} |-> v] : v \in values}

DocsConfig ==
    {Update(Update(a, b), c) :
        a \in Opt("background_image", {"anim", "background.jpg"}),
        b \in Opt("average_masks", {1, 2}),
        c \in Opt("dilate", {5})}

UsedConfig ==
    Update(DefaultConfig,
           [k \in {"mtime", "replacement_bgs_mtime", "replacement_bgs_idx", "last_frame_bg",
                   "overlays_mtime", "overlays_idx"} |->
               CASE k = "mtime" -> 1
                 [] k = "replacement_bgs_mtime" -> 2
                 [] k = "replacement_bgs_idx" -> 1
                 [] k = "last_frame_bg" -> StartTime
                 [] k = "overlays_mtime" -> 1
                 [] k = "overlays_idx" -> 1])

CallLoadConfig ==
    /\ LET r == load_config(config, cfgfile) IN
       /\ config' = r.config
       /\ err' = r.raised
       /\ trace' = [Did("load_config") EXCEPT !.lc = r.path, !.opened = r.opened]
       /\ observed' = ObservedAfter(r)
       /\ lastdec' = LastdecAfter(r)
    /\ UNCHANGED <<pc, replacement_bgs, overlays, masks, loc, sink, now, cfgfile, fs, hist>>

InitConfig ==
    /\ pc = "load_config"
    /\ err = "none"
    /\ config \in {DefaultConfig, UsedConfig}
    /\ replacement_bgs = None
    /\ overlays = None
    /\ masks = <<>>
    /\ loc = NoLocals
    /\ sink = NoFrame
    /\ now = StartTime
    /\ trace = Did("init")
    /\ observed = {}
    /\ lastdec = [s \in ImageSets |-> NoDecode]
    /\ hist = NoHist
    /\ cfgfile \in {NoConfigFile} \cup {ConfigFile(1, d) : d \in DocsConfig}
    /\ fs = [p \in Paths |-> NoFile]

NextConfig ==
    \/ CallLoadConfig
    \/ WriteConfig(DocsConfig)
    \/ CorruptConfig
    \/ ChmodConfig
    \/ RemoveConfig

SpecConfig == InitConfig /\ [][NextConfig]_vars

----------------------------------------------------------------------------
\* Claims about load_config (SpecConfig).

\* A step that is a call of load_config.
LoadConfigCalled == trace'.op \in {"startup", "load_config"}

\* C1: whenever reading or parsing config.yaml fails (the file is missing,
\* cannot be opened after a successful stat, or does not parse to a
\* mapping), load_config returns normally and the configuration it returns
\* is the one passed in, the recorded "mtime" included.
C1_FailureKeepsConfig ==
    [][(LoadConfigCalled /\ trace'.lc \in {"stat_failed", "open_failed", "parse_failed"})
          => (err' = "none" /\ config' = config)]_vars

\* C8: load_config opens config.yaml only when its mtime differs from the
\* recorded "mtime"; after a reload every key of the file has the file's
\* value and every other key except "mtime" and the "*_mtime" markers keeps
\* its value; with an unchanged mtime the whole configuration is unchanged.
C8_ReloadOverlays ==
    [][LoadConfigCalled =>
         /\ trace'.opened => (cfgfile.exists /\ DiffersFrom(config, "mtime", cfgfile.mtime))
         /\ trace'.lc = "reloaded" =>
               /\ DOMAIN config' = DOMAIN config \cup DOMAIN cfgfile.doc \cup {"mtime"}
               /\ \A k \in DOMAIN cfgfile.doc : config'[k] = cfgfile.doc[k]
               /\ \A k \in DOMAIN config \ DOMAIN cfgfile.doc :
                     (k # "mtime" /\ ~endswith_mtime(k)) => config'[k] = config[k]
         /\ (cfgfile.exists /\ ~DiffersFrom(config, "mtime", cfgfile.mtime)) =>
               (config' = config /\ ~trace'.opened /\ trace'.lc = "unchanged")]_vars

\* C8's case: a reload from a file that sets average_masks and not
\* background_image or dilate, which keep the values an earlier file gave them.
C8_Witness ==
    /\ trace.op = "load_config" /\ trace.lc = "reloaded"
    /\ DOMAIN cfgfile.doc = {"average_masks"}
    /\ Get(config, "average_masks", 0) = cfgfile.doc["average_masks"]
    /\ Get(config, "background_image", "") = "anim"
    /\ Has(config, "dilate")
    /\ Get(config, "replacement_bgs_idx", 0) = 1

----------------------------------------------------------------------------
\* Spec: the loop while the background source changes. config.yaml is one
\* of a few files and stays as it is; the configured background is a plain
\* file or an animation directory that is touched, replaced, emptied,
\* removed and restored between iterations; time passes.

\* The filter list entries of the model.
Str(name) == [type |-> "str", name |-> name, form |-> "flat", vals |-> <<>>, kw |-> EmptyDict]
Flat(name, vals) == [type |-> "list", name |-> name, form |-> "flat", vals |-> vals, kw |-> EmptyDict]
List1(name, vals) == [type |-> "list", name |-> name, form |-> "list1", vals |-> vals, kw |-> EmptyDict]
Dict1(name, kw) == [type |-> "list", name |-> name, form |-> "dict1", vals |-> <<>>, kw |-> kw]

\* The segmentation finds the person everywhere.
OneMask == {[p \in 1..Pixels |-> 1]}

DocsSources ==
    {Update(Update([k \in {"dilate"} |-> 0], a), b) :
        a \in Opt("background_image", {"anim"}),
        b \in Opt("background_filters", {<<Str("grayscale")>>})}

BackgroundStates(path) ==
    IF path = "anim"
    THEN {NoFile} \cup {ImageDir(m, n, FALSE) : m \in 1..MaxMtime, n \in 0..MaxFrames}
    ELSE {NoFile} \cup {ImageFile(m, FALSE) : m \in 1..MaxMtime}
                  \cup {Undecodable(m) : m \in 1..MaxMtime}

HaloFile == ImageFile(1, TRUE)

SetBackground ==
    LET path == Get(config, "background_image", "background.jpg") IN
    SetSource(path, BackgroundStates(path))

Init ==
    /\ InitProgram
    /\ cfgfile \in {NoConfigFile} \cup {ConfigFile(1, d) : d \in DocsSources}
    /\ fs \in {[p \in Paths |->
                  CASE p = "halo.png" -> HaloFile
                    [] p = "background.jpg" -> b
                    [] p = "anim" -> a
                    [] OTHER -> NoFile] :
               b \in {NoFile, ImageFile(1, FALSE)},
               a \in {NoFile, ImageDir(1, MaxFrames, FALSE)}}

Next ==
    \/ Program(OneMask)
    \/ SetBackground
    \/ Tick

Spec == Init /\ [][Next]_vars

----------------------------------------------------------------------------
\* Claims about the frame sets and their indices (Spec).

\* C2: at the moment a background frame is selected replacement_bgs_idx
\* lies in [0, len(replacement_bgs)), and at the moment an overlay frame is
\* selected overlays_idx lies in [0, len(overlays)).
C2_IndexInRange ==
    /\ pc = "blend" =>
          Get(config, "replacement_bgs_idx", 0) \in 0..(Len(replacement_bgs.frames) - 1)
    /\ (pc = "overlay" /\ ~overlays.isNone) =>
          loc.overlays_idx \in 0..(Len(overlays.frames) - 1)

\* C5: when the background or overlay source cannot be stat'd or decoded,
\* the iteration does not abort and the frame set held for that source
\* stays the one held before (or stays absent).
C5_FailureKeepsFrameSet ==
    [][/\ (trace'.op = "load_bg" /\ trace'.li \in {"stat_failed", "decode_failed"})
             => (pc' # "crashed" /\ replacement_bgs' = replacement_bgs)
       /\ (trace'.op = "load_overlay" /\ trace'.li \in {"stat_failed", "decode_failed"})
             => (pc' # "crashed" /\ overlays' = overlays)]_vars

----------------------------------------------------------------------------
\* SpecReload: the loop while config.yaml is rewritten, made unreadable and
\* readable again, and the background and overlay files are touched. Both
\* image sets are configured and load.

DocsReload ==
    {Update([k \in {"dilate", "overlay_image"} |-> IF k = "dilate" THEN 0 ELSE "overlay"], a) :
        a \in Opt("background_image", {"anim", "background.jpg"})}

TouchBackground ==
    SetSource("background.jpg", {ImageFile(m, FALSE) : m \in 1..MaxMtime})

TouchOverlay ==
    SetSource("overlay", {ImageFile(m, TRUE) : m \in 1..MaxMtime})

InitReload ==
    /\ InitProgram
    /\ cfgfile \in {ConfigFile(1, d) : d \in DocsReload}
    /\ fs = [p \in Paths |->
                CASE p = "halo.png" -> HaloFile
                  [] p = "background.jpg" -> ImageFile(1, FALSE)
                  [] p = "anim" -> ImageDir(1, 2, FALSE)
                  [] p = "overlay" -> ImageFile(1, TRUE)]

NextReload ==
    \/ Program(OneMask)
    \/ WriteConfig(DocsReload)
    \/ ChmodConfig
    \/ TouchBackground
    \/ TouchOverlay

SpecReload == InitReload /\ [][NextReload]_vars

----------------------------------------------------------------------------
\* Claims about the image cache (SpecReload).

\* The frame set held for an imageset and the source configured for it.
Held(s) == IF s = "replacement_bgs" THEN replacement_bgs ELSE overlays
SourceOf(s) ==
    IF s = "replacement_bgs" THEN Get(config, "background_image", "background.jpg")
    ELSE Get(config, "overlay_image", "")
FilesOf(st) == IF st.isdir THEN st.nfiles ELSE 1

\* C4 as stated: a call whose source mtime equals the stored marker returns
\* the set passed in, decodes nothing and leaves the index as it is; a call
\* whose source mtime differs decodes the source and resets the index to 0;
\* and every later call with the same source and mtime decodes nothing.
C4_DecodedOncePerMtime ==
    [][\A s \in ImageSets : trace'.set = s =>
          LET st == StatOf(fs, SourceOf(s)) IN
          (st.exists /\ lastdec[s].path = SourceOf(s) /\ lastdec[s].mtime = st.mtime)
             => trace'.decoded = 0]_vars

\* C4 as amended: the same, with "every later call with the same source
\* and mtime decodes nothing" holding until load_config reloads config.yaml.
C4_CacheUntilReload ==
    [][\A s \in ImageSets : trace'.set = s =>
          LET st == StatOf(fs, SourceOf(s)) IN
          /\ (st.exists /\ ~DiffersFrom(config, MtimeKey(s), st.mtime))
                => (trace'.li = "hit" /\ trace'.decoded = 0 /\ Held(s)' = Held(s)
                    /\ config' = config)
          /\ (st.exists /\ DiffersFrom(config, MtimeKey(s), st.mtime)
                /\ FilesOf(st) > 0 /\ st.decodable)
                => (trace'.li = "loaded" /\ trace'.decoded = FilesOf(st)
                    /\ Len(Held(s)'.frames) = FilesOf(st)
                    /\ Get(config', IdxKey(s), -1) = 0
                    /\ Get(config', MtimeKey(s), 0) = st.mtime)
          /\ (st.exists /\ lastdec[s].fresh /\ lastdec[s].path = SourceOf(s)
                /\ lastdec[s].mtime = st.mtime)
                => (trace'.li = "hit" /\ trace'.decoded = 0)]_vars

\* C4's case: after config.yaml was reloaded and the animation decoded
\* again, a later call finds the directory unchanged (a cache hit) and
\* leaves the index, which has advanced to 1, as it is.
C4_Witness ==
    /\ trace.set = "replacement_bgs" /\ trace.li = "hit"
    /\ lastdec["replacement_bgs"] = [path |-> "anim", mtime |-> 1, fresh |-> TRUE]
    /\ Get(config, "mtime", 0) = 2
    /\ Get(config, "replacement_bgs_idx", 0) = 1
    /\ Len(replacement_bgs.frames) = 2

\* C9: after load_config has seen a changed config.yaml, the next
\* load_images call for every imageset decodes its source again, even when
\* that source's path and mtime are unchanged.
C9_ChangeForcesReload ==
    [][\A s \in ImageSets : (trace'.set = s /\ s \in observed) =>
          LET st == StatOf(fs, SourceOf(s)) IN
          (st.exists /\ FilesOf(st) > 0 /\ st.decodable) => trace'.decoded = FilesOf(st)]_vars

----------------------------------------------------------------------------
\* SpecPlayback: the loop with an animated background and an animated
\* overlay, frame rates from config.yaml, while time passes and the overlay
\* directory is rewritten.

DocsPlayback ==
    {Update(Update(Update([k \in {"dilate", "background_image"} |->
                              IF k = "dilate" THEN 0 ELSE "anim"], a), b), c) :
        a \in Opt("overlay_image", {"overlay"}),
        b \in Opt("background_fps", {2}),
        c \in Opt("overlay_fps", {2})}

OverlayFrames == 2

TouchOverlayDir ==
    SetSource("overlay", {ImageDir(m, OverlayFrames, TRUE) : m \in 1..MaxMtime})

InitPlayback ==
    /\ InitProgram
    /\ cfgfile \in {ConfigFile(1, d) : d \in DocsPlayback}
    /\ fs = [p \in Paths |->
                CASE p = "halo.png" -> HaloFile
                  [] p = "background.jpg" -> NoFile
                  [] p = "anim" -> ImageDir(1, MaxFrames, FALSE)
                  [] p = "overlay" -> ImageDir(1, OverlayFrames, TRUE)]

NextPlayback ==
    \/ Program(OneMask)
    \/ Tick
    \/ TouchOverlayDir

SpecPlayback == InitPlayback /\ [][NextPlayback]_vars

----------------------------------------------------------------------------
\* Claims about playback (SpecPlayback).

\* The blend steps that select a frame and go on.
BackgroundBlended == pc = "blend" /\ pc' = "result"
OverlayBlended == pc = "overlay" /\ pc' = "emit" /\ ~overlays.isNone
                  /\ Len(overlays.frames) > 0

\* What a blend step does to the playback state of one set: idx is the index
\* the frame was selected with, n the length of the set, due whether the
\* index is to advance.
Advanced(idx_key, last_key, idx, n, due) ==
    IF due
    THEN /\ Get(config', idx_key, 0) = (idx + 1) % n
         /\ Get(config', last_key, 0) = now
    ELSE /\ Get(config', idx_key, 0) = Get(config, idx_key, 0)
         /\ Get(config', last_key, 0) = Get(config, last_key, 0)

\* C3 as stated: in an iteration the index of the background, and of the
\* overlay when one is loaded, becomes (index + 1) mod len and its
\* last-advance time the current time exactly when the time since the last
\* advance is at least 1/fps, and both stay as they are otherwise.
C3_AdvanceAtPeriod ==
    [][/\ BackgroundBlended =>
             Advanced("replacement_bgs_idx", "last_frame_bg",
                      Get(config, "replacement_bgs_idx", 0), Len(replacement_bgs.frames),
                      (now - Get(config, "last_frame_bg", 0))
                          * Get(config, "background_fps", 1) >= TicksPerSecond)
       /\ OverlayBlended =>
             Advanced("overlays_idx", "last_frame_overlay",
                      loc.overlays_idx, Len(overlays.frames),
                      (now - Get(config, "last_frame_overlay", 0))
                          * Get(config, "overlay_fps", 1) >= TicksPerSecond)]_vars

\* C3 as amended: the same, with the index advancing exactly when the time
\* since the last advance is strictly greater than 1/fps; the index moves by
\* one step however long that time is.
C3_AdvanceAfterPeriod ==
    [][/\ BackgroundBlended =>
             Advanced("replacement_bgs_idx", "last_frame_bg",
                      Get(config, "replacement_bgs_idx", 0), Len(replacement_bgs.frames),
                      (now - Get(config, "last_frame_bg", 0))
                          * Get(config, "background_fps", 1) > TicksPerSecond)
       /\ OverlayBlended =>
             Advanced("overlays_idx", "last_frame_overlay",
                      loc.overlays_idx, Len(overlays.frames),
                      (now - Get(config, "last_frame_overlay", 0))
                          * Get(config, "overlay_fps", 1) > TicksPerSecond)]_vars

\* The overlay has just been blended in an iteration in which the background
\* index advanced a second time and the overlay index, exactly 1/fps after
\* its last advance, stayed where it was.
C3_Witness ==
    /\ trace.op = "overlay" /\ pc = "emit"
    /\ ~overlays.isNone
    /\ Get(config, "replacement_bgs_idx", 0) = 2
    /\ Get(config, "last_frame_bg", 0) = now
    /\ Get(config, "overlays_idx", 0) = 1
    /\ Get(config, "last_frame_overlay", 0) < now
    /\ (now - Get(config, "last_frame_overlay", 0)) * Get(config, "overlay_fps", 1)
          = TicksPerSecond

----------------------------------------------------------------------------
\* SpecMasks: the loop with every mask the segmentation can deliver, while
\* config.yaml is rewritten with other values of average_masks.

DocsMasks ==
    {Update([k \in {"dilate"} |-> 0], a) : a \in Opt("average_masks", {0, 2, 3})}

InitMasks ==
    /\ InitProgram
    /\ cfgfile \in {ConfigFile(1, d) : d \in DocsMasks}
    /\ fs = [p \in Paths |->
                CASE p = "halo.png" -> HaloFile
                  [] p = "background.jpg" -> ImageFile(1, FALSE)
                  [] OTHER -> NoFile]

NextMasks ==
    \/ Program(RawMasks)
    \/ WriteConfig(DocsMasks)

SpecMasks == InitMasks /\ [][NextMasks]_vars

----------------------------------------------------------------------------
\* Claims about the mask history (SpecMasks).

\* The element-wise sum of 0/1 masks: per pixel, how many of them are 1.
OnesAt(ms, p) == Cardinality({j \in 1..Len(ms) : ms[j][p] = 1})

\* C7: after N masks have been pushed into the history with capacity
\* K = max(1, average_masks), the last min(N, K) of them at that capacity,
\* the history holds the last min(N, K) raw masks, newest first, and the
\* smoothed mask handed to the refinement is their element-wise mean.
C7_MeanOfLastMasks ==
    trace.op = "segment" =>
        LET K == Max(1, Get(config, "average_masks", 3))
            N == Len(hist.pushed)
            last == SubSeq(hist.pushed, 1, Min(N, K))
        IN  hist.steady >= Min(N, K) =>
               /\ masks = last
               /\ loc.mask.den = Min(N, K)
               /\ loc.mask.num = [p \in 1..Pixels |-> OnesAt(last, p)]

\* Three masks have been pushed at capacity 2: a 1, then a 0, then a 1. The
\* first has been evicted and the smoothed mask is the mean of the other two.
C7_Witness ==
    /\ trace.op = "segment" /\ pc = "fg_filter"
    /\ Get(config, "average_masks", 3) = 2
    /\ hist.steady = 3
    /\ \A p \in 1..Pixels :
          /\ hist.pushed[1][p] = 1 /\ hist.pushed[2][p] = 0 /\ hist.pushed[3][p] = 1
          /\ loc.mask.num[p] = 1
    /\ loc.mask.den = 2

----------------------------------------------------------------------------
\* SpecChains: the loop with filter lists of up to MaxFilters entries for the
\* background, the foreground and the result, among them entries whose call
\* raises TypeError, while the background directory is rewritten and removed.

ChainEntries == {Str("grayscale"), Str("blur"), Flat("blur", <<1>>), Flat("grayscale", <<1>>)}

ChainLists == UNION {[1..n -> ChainEntries] : n \in 1..MaxFilters}

ChainKeys == {{"background_filters"}, {"foreground_filters"}, {"result_filters"},
              {"background_filters", "foreground_filters", "result_filters"}}

DocsChains ==
    {Update([k \in {"dilate", "background_image"} |-> IF k = "dilate" THEN 0 ELSE "anim"],
            [k \in Ks |-> l]) : Ks \in ChainKeys, l \in ChainLists}

AnimFrames == 2

TouchAnim ==
    SetSource("anim", {NoFile} \cup {ImageDir(m, AnimFrames, FALSE) : m \in 1..MaxMtime})

InitChains ==
    /\ InitProgram
    /\ cfgfile \in {ConfigFile(1, d) : d \in DocsChains}
    /\ fs = [p \in Paths |->
                CASE p = "halo.png" -> HaloFile
                  [] p = "anim" -> ImageDir(1, AnimFrames, FALSE)
                  [] OTHER -> NoFile]

NextChains ==
    \/ Program(OneMask)
    \/ TouchAnim

SpecChains == InitChains /\ [][NextChains]_vars

----------------------------------------------------------------------------
\* Claims about the filter chains (SpecChains).

\* The transforms of a chain whose call does not raise, and what they leave
\* of a frame when they alone are applied, in the order of the chain.
Passing(chain) ==
    {i \in 1..Len(chain.image_filters) :
        call_image_filter(chain.image_filters[i], chain.cell, NoFrame).raised = "none"}
Failing(chain) == (1..Len(chain.image_filters)) \ Passing(chain)
NthOf(S, j) == CHOOSE i \in S : Cardinality({k \in S : k < i}) = j - 1
Filtered(chain, frame) ==
    [frame EXCEPT !.ops = @ \o
        [j \in 1..Cardinality(Passing(chain)) |->
            call_image_filter(chain.image_filters[NthOf(Passing(chain), j)],
                              chain.cell, NoFrame).frame.ops[1]]]
Resolved(key) == Chain(get_imagefilters(Get(config, key, <<>>)))

\* C10: a transform whose call raises TypeError is skipped and nothing else
\* is: the foreground and the result stage, the load of a background set and
\* the filtering of the camera frame that stands in for a missing background
\* each give, for every frame, the frame with the other transforms of the
\* chain applied in order, and the iteration goes on to its next stage.
C10_OnlyFailingCallSkipped ==
    [][/\ pc = "fg_filter" =>
             /\ pc' = "blend"
             /\ loc'.frame = Filtered(Resolved("foreground_filters"), loc.frame)
       /\ pc = "result" =>
             /\ pc' = "load_overlay"
             /\ loc'.frame = Filtered(Resolved("result_filters"), loc.frame)
       /\ (pc = "load_bg" /\ trace'.li = "loaded") =>
             /\ pc' = "bg_none"
             /\ Len(replacement_bgs'.frames) = AnimFrames
             /\ \A i \in 1..AnimFrames :
                   replacement_bgs'.frames[i] =
                       Filtered(Resolved("background_filters"),
                                decode_image("anim", fs["anim"], i,
                                    Get(config, "background_interpolation_method", "None")))
       /\ (pc = "bg_none" /\ replacement_bgs.isNone
              /\ Len(loc.image_filters.image_filters) > 0) =>
             /\ pc' = "segment"
             /\ replacement_bgs' = Some(<<Filtered(loc.image_filters,
                                              WithOp(loc.frame, "reverse_channels"))>>)]_vars

\* A frame has reached the sink in an iteration whose background, foreground
\* and result chains each begin with a transform that raises TypeError and go
\* on with one that does not: both background frames and the frame carry the
\* second transform.
C10_Witness ==
    /\ trace.emitted /\ trace.op = "emit"
    /\ \A key \in {"background_filters", "foreground_filters", "result_filters"} :
          /\ Has(config, key)
          /\ Len(config[key]) = 2
          /\ 1 \in Failing(Resolved(key))
          /\ 2 \in Passing(Resolved(key))
    /\ ~replacement_bgs.isNone
    /\ Len(replacement_bgs.frames) = AnimFrames
    /\ \A i \in 1..AnimFrames : Len(replacement_bgs.frames[i].ops) = 1
    /\ Cardinality({j \in 1..Len(sink.ops) :
                      sink.ops[j] = Filtered(Resolved("result_filters"), NoFrame).ops[1]}) = 2

----------------------------------------------------------------------------
\* SpecFilters: get_imagefilters on its own. A filter list of up to
\* MaxFilters entries is resolved and the transforms of the resolved chain
\* are called on the camera frame; the list is replaced between the calls.

FilterEntries ==
    {Str("grayscale"), Flat("grayscale", <<>>), Flat("blur", <<1>>), Flat("blur", <<2>>),
     List1("blur", <<1>>), Dict1("blur", [k \in {"radius"} |-> 2])}

FilterLists == UNION {[1..n -> FilterEntries] : n \in 0..MaxFilters}

CallGetImagefilters ==
    /\ LET r == get_imagefilters(config["foreground_filters"]) IN
       /\ loc' = [loc EXCEPT !.image_filters = Chain(r), !.frame = CameraFrame]
       /\ err' = r.raised
    /\ trace' = Did("get_imagefilters")
    /\ UNCHANGED <<pc, config, replacement_bgs, overlays, masks, sink, now, cfgfile, fs,
                   observed, lastdec, hist>>

CallImageFilter ==
    /\ trace.op \in {"get_imagefilters", "image_filter"}
    /\ \E i \in 1..Len(loc.image_filters.image_filters) :
          LET r == call_image_filter(loc.image_filters.image_filters[i],
                                     loc.image_filters.cell, CameraFrame) IN
          /\ loc' = [loc EXCEPT !.frame = r.frame]
          /\ err' = r.raised
          /\ trace' = [Did("image_filter") EXCEPT !.arg = i]
    /\ UNCHANGED <<pc, config, replacement_bgs, overlays, masks, sink, now, cfgfile, fs,
                   observed, lastdec, hist>>

SetFilterList ==
    /\ \E l \in FilterLists :
          /\ l # config["foreground_filters"]
          /\ config' = Put(config, "foreground_filters", l)
    /\ loc' = NoLocals
    /\ err' = "none"
    /\ trace' = Did("env")
    /\ UNCHANGED <<pc, replacement_bgs, overlays, masks, sink, now, cfgfile, fs,
                   observed, lastdec, hist>>

InitFilters ==
    /\ pc = "load_config"
    /\ err = "none"
    /\ config \in {Put(DefaultConfig, "foreground_filters", l) : l \in FilterLists}
    /\ replacement_bgs = None
    /\ overlays = None
    /\ masks = <<>>
    /\ loc = NoLocals
    /\ sink = NoFrame
    /\ now = StartTime
    /\ trace = Did("init")
    /\ observed = {}
    /\ lastdec = [s \in ImageSets |-> NoDecode]
    /\ hist = NoHist
    /\ cfgfile = NoConfigFile
    /\ fs = [p \in Paths |-> NoFile]

NextFilters ==
    \/ CallGetImagefilters
    \/ CallImageFilter
    \/ SetFilterList

SpecFilters == InitFilters /\ [][NextFilters]_vars

----------------------------------------------------------------------------
\* Claims about get_imagefilters (SpecFilters).

\* The call an entry of a filter list stands for: the filter it names with
\* its own positional or keyword parameters.
EntryCall(filters_item, frame) ==
    call_filter(filters_item.name,
                IF filters_item.form = "dict1" THEN <<>> ELSE filters_item.vals,
                IF filters_item.form = "dict1" THEN filters_item.kw ELSE EmptyDict,
                frame)

\* C6: get_imagefilters returns one transform per entry of the list, in
\* list order, and the i-th transform applied to a frame gives what the
\* filter named by entry i gives with entry i's own parameters.
C6_EntryOwnParameters ==
    LET filter_list == config["foreground_filters"]
        chain == loc.image_filters
    IN /\ trace.op \in {"get_imagefilters", "image_filter"} =>
             /\ Len(chain.image_filters) = Len(filter_list)
             /\ \A i \in 1..Len(filter_list) :
                   call_image_filter(chain.image_filters[i], chain.cell, CameraFrame)
                       = EntryCall(filter_list[i], CameraFrame)
       /\ trace.op = "image_filter" =>
             /\ loc.frame = EntryCall(filter_list[trace.arg], CameraFrame).frame
             /\ err = EntryCall(filter_list[trace.arg], CameraFrame).raised

----------------------------------------------------------------------------
\* SpecUnknown: the loop with filter lists that name a filter the registry
\* does not know, with and without a background image.

UnknownLists ==
    {<<Str("grayscale")>>, <<Str("nosuch")>>, <<Str("grayscale"), Flat("nosuch", <<1>>)>>}

FilterKeys == {"background_filters", "foreground_filters", "result_filters",
               "overlay_filters"}

DocsUnknown ==
    {Update([k \in {"dilate"} |-> 0], [k \in {key} |-> l]) :
        key \in FilterKeys, l \in UnknownLists}

ToggleBackground ==
    SetSource("background.jpg", {NoFile} \cup {ImageFile(m, FALSE) : m \in 1..MaxMtime})

InitUnknown ==
    /\ InitProgram
    /\ cfgfile \in {ConfigFile(1, d) : d \in DocsUnknown}
    /\ fs \in {[p \in Paths |->
                  CASE p = "halo.png" -> HaloFile
                    [] p = "background.jpg" -> b
                    [] p = "overlay" -> ImageFile(1, TRUE)
                    [] OTHER -> NoFile] : b \in {NoFile, ImageFile(1, FALSE)}}

NextUnknown ==
    \/ Program(OneMask)
    \/ ToggleBackground

SpecUnknown == InitUnknown /\ [][NextUnknown]_vars

----------------------------------------------------------------------------
\* Claims about unknown filter names (SpecUnknown).

\* The filter list configured under key names a filter that is not registered.
NamesUnknown(key) ==
    \E i \in 1..Len(Get(config, key, <<>>)) :
        /\ Get(config, key, <<>>)[i].type \in {"str", "list"}
        /\ Get(config, key, <<>>)[i].name \notin KnownFilters

\* The stage that resolves the filter list configured under key.
StageOf(key) ==
    CASE key = "background_filters" -> "load_bg"
      [] key = "foreground_filters" -> "fg_filter"
      [] key = "result_filters" -> "result"
      [] key = "overlay_filters" -> "load_overlay"

\* C11: a filter list that names an unknown filter makes the stage that
\* resolves it end the process with the registry's error, the frame and the
\* frame sets as they were; and no frame is handed to the sink while a
\* configured filter list names an unknown filter.
C11_UnknownFilterNeverEmitted ==
    [][/\ \A key \in FilterKeys :
             (pc = StageOf(key) /\ NamesUnknown(key)) =>
                 /\ pc' = "crashed" /\ err' = "UnknownFilter"
                 /\ loc'.frame = loc.frame
                 /\ replacement_bgs' = replacement_bgs /\ overlays' = overlays
                 /\ sink' = sink
       /\ trace'.emitted => \A key \in FilterKeys : ~NamesUnknown(key)]_vars

----------------------------------------------------------------------------
\* Claims about the camera read (SpecMasks).

\* C12: when cap.read() fails, the step hands no frame to the sink and ends
\* the process with SystemExit, which the loop's KeyboardInterrupt handler
\* does not catch; a process that has exited takes no further step.
C12_CaptureFailureExits ==
    [][/\ (trace'.op = "capture" /\ ~trace'.read) =>
             /\ pc' = "exited" /\ err' = "SystemExit"
             /\ sink' = sink /\ ~trace'.emitted
       /\ pc # "exited"]_vars

\* The read has failed in an iteration that follows one which handed a frame
\* to the sink: the process has exited and the sink holds the earlier frame.
C12_Witness ==
    /\ trace.op = "capture" /\ ~trace.read
    /\ pc = "exited" /\ err = "SystemExit"
    /\ sink # NoFrame
    /\ loc = NoLocals

----------------------------------------------------------------------------
\* SpecOverlay: the loop with a background image while the overlay file is
\* written with and without an alpha channel and removed, and halo.png is
\* removed and restored.

DocsOverlay ==
    {Update(Update([k \in {"dilate"} |-> 0], a), b) :
        a \in Opt("overlay_image", {"overlay"}),
        b \in Opt("overlay_filters", {<<Str("grayscale")>>})}

SetOverlay ==
    SetSource("overlay", {NoFile} \cup {ImageFile(m, a) : m \in 1..MaxMtime, a \in BOOLEAN})

SetHalo == SetSource("halo.png", {NoFile, HaloFile})

InitOverlay ==
    /\ InitProgram
    /\ cfgfile \in {ConfigFile(1, d) : d \in DocsOverlay}
    /\ fs = [p \in Paths |->
                CASE p = "halo.png" -> HaloFile
                  [] p = "background.jpg" -> ImageFile(1, FALSE)
                  [] p = "overlay" -> ImageFile(1, TRUE)
                  [] OTHER -> NoFile]

NextOverlay ==
    \/ Program(OneMask)
    \/ SetOverlay
    \/ SetHalo

SpecOverlay == InitOverlay /\ [][NextOverlay]_vars

----------------------------------------------------------------------------
\* Claims about the overlay (SpecOverlay).

\* The overlay blends a frame carries.
OverlayBlends(frame) ==
    {j \in 1..Len(frame.ops) : frame.ops[j].name = "blend_overlay"}

\* C13: when the overlay frame selected for blending has no alpha channel
\* the step ends the process, the frame and the sink as they were; no frame
\* handed to the sink carries a blend with an overlay without alpha channel.
C13_OverlayWithoutAlphaFails ==
    [][/\ (pc = "overlay" /\ ~overlays.isNone /\ Len(overlays.frames) > loc.overlays_idx
             /\ ~overlays.frames[loc.overlays_idx + 1].alpha) =>
                /\ pc' = "crashed" /\ err' = "AssertionError"
                /\ loc'.frame = loc.frame /\ sink' = sink
       /\ \A j \in OverlayBlends(sink') : sink'.ops[j].bound.overlay.alpha]_vars

\* The overlay, blended into the frame of an earlier iteration, has been
\* replaced with an image without alpha channel and the blend has failed.
C13_Witness ==
    /\ trace.op = "overlay" /\ pc = "crashed" /\ err = "AssertionError"
    /\ ~overlays.isNone /\ Len(overlays.frames) = 1
    /\ ~overlays.frames[1].alpha
    /\ OverlayBlends(sink) # {}

----------------------------------------------------------------------------
\* SpecBlend: the background blend on pixel values. The foreground and the
\* background are images of one colour with a gradient over the pixels, the
\* mask is any mask of the fractions 0/MaskDen .. MaskDen/MaskDen.

MaxValue == 2
MaskDen == 2

Gradient(colour) == [p \in 1..Pixels |-> [c \in 1..3 |-> (colour[c] + p) % (MaxValue + 1)]]

BlendImages == {Gradient(colour) : colour \in [1..3 -> 0..MaxValue]}

BlendMasks == {[num |-> n, den |-> MaskDen, morph |-> <<>>] : n \in [1..Pixels -> 0..MaskDen]}

WithPixels(frame, px) == [px |-> px] @@ frame

CallBlendPixels ==
    /\ trace.op = "init"
    /\ loc' = [loc EXCEPT !.frame = WithPixels(CameraFrame,
                    blend_pixels(loc.frame.px, replacement_bgs.frames[1].px, loc.mask))]
    /\ trace' = Did("blend_pixels")
    /\ UNCHANGED <<pc, err, config, replacement_bgs, overlays, masks, sink, now, cfgfile,
                   fs, observed, lastdec, hist>>

InitBlend ==
    /\ pc = "blend"
    /\ err = "none"
    /\ config = DefaultConfig
    /\ replacement_bgs \in {Some(<<WithPixels(NoFrame, px)>>) : px \in BlendImages}
    /\ overlays = None
    /\ masks = <<>>
    /\ loc \in {[NoLocals EXCEPT !.frame = WithPixels(CameraFrame, px), !.mask = m] :
                   px \in BlendImages, m \in BlendMasks}
    /\ sink = NoFrame
    /\ now = StartTime
    /\ trace = Did("init")
    /\ observed = {}
    /\ lastdec = [s \in ImageSets |-> NoDecode]
    /\ hist = NoHist
    /\ cfgfile = NoConfigFile
    /\ fs = [p \in Paths |-> NoFile]

NextBlend == CallBlendPixels

SpecBlend == InitBlend /\ [][NextBlend]_vars

----------------------------------------------------------------------------
\* Claims about the background blend (SpecBlend).

\* C14: in the background blend a mask that is 0 at every pixel gives, at
\* every pixel and channel, the value of the background frame, and a mask
\* that is 1 at every pixel gives the value of the foreground frame,
\* whatever the other image holds.
C14_BlendExtremes ==
    [][trace'.op = "blend_pixels" =>
         /\ (\A p \in 1..Pixels : loc.mask.num[p] = 0) =>
               \A p \in 1..Pixels : \A c \in 1..3 :
                   loc'.frame.px[p][c] = replacement_bgs.frames[1].px[p][c]
         /\ (\A p \in 1..Pixels : loc.mask.num[p] = loc.mask.den) =>
               \A p \in 1..Pixels : \A c \in 1..3 :
                   loc'.frame.px[p][c] = loc.frame.px[p][c]]_vars

\* A blend with the mask 0 at every pixel has given the background, an
\* image whose channels differ at pixel 1.
C14_Witness ==
    /\ trace.op = "blend_pixels"
    /\ \A p \in 1..Pixels : loc.mask.num[p] = 0
    /\ loc.frame.px = replacement_bgs.frames[1].px
    /\ \E c \in 1..3 : loc.frame.px[1][c] # loc.frame.px[1][1]

----------------------------------------------------------------------------
\* SpecHistory: SpecMasks with a background image that is removed and
\* restored between iterations.

InitHistory ==
    /\ InitProgram
    /\ cfgfile \in {ConfigFile(1, d) : d \in DocsMasks}
    /\ fs \in {[p \in Paths |->
                  CASE p = "halo.png" -> HaloFile
                    [] p = "background.jpg" -> b
                    [] OTHER -> NoFile] : b \in {NoFile, ImageFile(1, FALSE)}}

NextHistory ==
    \/ Program(RawMasks)
    \/ WriteConfig(DocsMasks)
    \/ ToggleBackground

SpecHistory == InitHistory /\ [][NextHistory]_vars

\* C15: when an iteration has handed a frame to the sink, the mask history
\* holds at most max(1, average_masks) masks for the configuration of that
\* iteration, and they are the masks pushed last, newest first.
C15_HistoryBounded ==
    trace.emitted =>
        /\ Len(masks) <= Max(1, Get(config, "average_masks", 3))
        /\ Len(masks) <= Len(hist.pushed)
        /\ masks = SubSeq(hist.pushed, 1, Len(masks))

----------------------------------------------------------------------------
\* Claims about the overlay load (SpecOverlay).

\* C16: when the overlay set is loaded, every overlay frame has had the
\* transforms resolved from overlay_filters applied to it once, in list
\* order, as the background frames have those of background_filters.
C16_OverlayFiltersApplied ==
    [][(pc = "load_overlay" /\ trace'.li = "loaded") =>
          \A i \in 1..Len(overlays'.frames) :
              overlays'.frames[i].ops = Filtered(Resolved("overlay_filters"), NoFrame).ops]_vars

\* C17: when no overlay set is loaded, the frame that leaves the result
\* filters reaches the sink as it is: between the overlay load and the sink
\* no image is blended into it and no step fails for want of an image file.
C17_NoOverlayNoBlend ==
    [][(pc \in {"halo", "overlay"} /\ overlays.isNone) =>
          /\ pc' \in {"overlay", "emit"}
          /\ loc'.frame = loc.frame]_vars

----------------------------------------------------------------------------
\* SpecInterpolation: the loop with background_interpolation_method set to
\* "NEAREST", to "LINEAR" or not at all, while the background is touched.

DocsInterpolation ==
    {Update([k \in {"dilate"} |-> 0], a) :
        a \in Opt("background_interpolation_method", {"NEAREST", "LINEAR"})}

InitInterpolation ==
    /\ InitProgram
    /\ cfgfile \in {ConfigFile(1, d) : d \in DocsInterpolation}
    /\ fs = [p \in Paths |->
                CASE p = "halo.png" -> HaloFile
                  [] p = "background.jpg" -> ImageFile(1, FALSE)
                  [] OTHER -> NoFile]

NextInterpolation ==
    \/ Program(OneMask)
    \/ WriteConfig(DocsInterpolation)
    \/ TouchBackground

SpecInterpolation == InitInterpolation /\ [][NextInterpolation]_vars

\* C18: load_images resizes every frame it decodes with nearest-neighbour
\* interpolation when its interpolation method argument is "NEAREST" and
\* with linear interpolation otherwise.
C18_InterpolationFollowsArgument ==
    [][(pc = "load_bg" /\ trace'.li = "loaded") =>
          \A i \in 1..Len(replacement_bgs'.frames) :
              replacement_bgs'.frames[i].interp =
                  IF Get(config, "background_interpolation_method", "None") = "NEAREST"
                  THEN "INTER_NEAREST" ELSE "INTER_LINEAR"]_vars

----------------------------------------------------------------------------
\* Claims about a background that comes back (Spec).

\* C19: when the background source, decoded earlier, can be stat'd again
\* with the mtime it was decoded at, the background set in use from then on
\* is the frames decoded from that source: it is not absent and holds no
\* frame made from a camera image.
C19_BackgroundComesBack ==
    [][LET image_name == SourceOf("replacement_bgs")
           st == StatOf(fs, image_name)
       IN (/\ pc = "load_bg" /\ pc' = "bg_none"
           /\ st.exists
           /\ lastdec["replacement_bgs"].path = image_name
           /\ lastdec["replacement_bgs"].mtime = st.mtime) =>
              /\ ~replacement_bgs'.isNone
              /\ \A i \in 1..Len(replacement_bgs'.frames) :
                    /\ replacement_bgs'.frames[i].src = image_name
                    /\ replacement_bgs'.frames[i].ver = st.mtime]_vars

----------------------------------------------------------------------------
\* SpecRefine: the loop with a config.yaml that defines any subset of
\* dilate, erode and blur, rewritten between iterations.

DocsRefine ==
    {Update(Update(a, b), c) :
        a \in Opt("dilate", {0, 5}), b \in Opt("erode", {0, 5}), c \in Opt("blur", {0, 5})}

InitRefine ==
    /\ InitProgram
    /\ cfgfile \in {NoConfigFile} \cup {ConfigFile(1, d) : d \in DocsRefine}
    /\ fs = [p \in Paths |->
                CASE p = "halo.png" -> HaloFile
                  [] p = "background.jpg" -> ImageFile(1, FALSE)
                  [] OTHER -> NoFile]

NextRefine ==
    \/ Program(OneMask)
    \/ WriteConfig(DocsRefine)

SpecRefine == InitRefine /\ [][NextRefine]_vars

\* C20: whatever subset of dilate, erode and blur config.yaml defines, the
\* mask refinement of an iteration with a captured frame and a background
\* goes on to the foreground filters, and the refined mask lists exactly
\* the stages whose setting is defined and not zero, in the order dilate,
\* erode, blur.
C20_UnsetStageSkipped ==
    [][pc = "segment" =>
          /\ pc' = "fg_filter"
          /\ loc'.mask.morph =
                SelectSeq(<<<<"dilate", Get(config, "dilate", 0)>>,
                            <<"erode", Get(config, "erode", 0)>>,
                            <<"blur", Get(config, "blur", 0)>>>>,
                          LAMBDA stage : stage[2] # 0)]_vars

====
